---- MODULE Spec2Model ----
(***************************************************************************)
(* Model of MultiAuggieOrchestrator (multi-auggie-orchestrator.py): the    *)
(* task graph, the agent registry, assign_tasks, execute_task and the      *)
(* orchestrate loop.                                                       *)
(*                                                                         *)
(* Runtime semantics assumed (CPython 3.8 - 3.10 asyncio):                 *)
(*  - asyncio.wait() wraps the coroutines of active_tasks into Tasks;      *)
(*    each Task runs its first step (up to the await of the worker         *)
(*    sub-process) before the waiter of asyncio.wait is woken;             *)
(*  - Task.cancel() throws CancelledError into the coroutine at its        *)
(*    suspension point the next time the event loop runs, i.e. while       *)
(*    orchestrate is suspended in asyncio.sleep(1);                        *)
(*  - CancelledError derives from BaseException, so `except Exception`     *)
(*    does not catch it, `finally` still runs.                             *)
(* assign_tasks and _merge_task_results contain no suspension point, so    *)
(* they run without interleaving.                                          *)
(***************************************************************************)
EXTENDS Integers, Sequences, FiniteSets, TLC

\* ---------------------------------------------------------------- bounds
NumTasks == 3
NumAgents == 2

\* ------------------------------------------------------------- constants
\* Optional[...] = None of Task.assigned_agent, Task.output_path and
\* AuggieAgent.current_task; task and agent ids are 1, 2, ...
None == 0

\* TaskStatus
PENDING == "pending"
ASSIGNED == "assigned"
IN_PROGRESS == "in_progress"
COMPLETED == "completed"
FAILED == "failed"
BLOCKED == "blocked"
TaskStatus == {PENDING, ASSIGNED, IN_PROGRESS, COMPLETED, FAILED, BLOCKED}

VARIABLES
    tasks,        \* self.tasks: id -> Task, iterated in ascending id (insertion) order
    agents,       \* self.agents: id -> AuggieAgent, iterated in ascending id order
    pc,           \* position of orchestrate()
    exec,         \* per agent: the asyncio Task running execute_task(agent, task)
    assignments,  \* the (task, agent) pairs made by the latest assign_tasks call
    workerCalls,  \* per task: how often _run_auggie_command was called for it
    mergeCalls,   \* per task: how often _merge_task_results was called for it
    call          \* the latest direct call of a helper: its arguments and result

vars == <<tasks, agents, pc, exec, assignments, workerCalls, mergeCalls, call>>

TaskIds == DOMAIN tasks
AgentIds == DOMAIN agents

\* ------------------------------------------------------------ strings
\* A str is a sequence of one-character strings.
S_frontend == <<"f","r","o","n","t","e","n","d">>
S_backend == <<"b","a","c","k","e","n","d">>
S_database == <<"d","a","t","a","b","a","s","e">>
S_testing == <<"t","e","s","t","i","n","g">>
S_general == <<"g","e","n","e","r","a","l">>
S_backend_api == <<"b","a","c","k","e","n","d","-","a","p","i">>
S_Backend_API == <<"B","a","c","k","e","n","d","-","A","P","I">>
S_Backend == <<"B","a","c","k","e","n","d">>
S_empty == <<>>

\* str.lower() on one character
LowerChar(c) ==
    CASE c = "A" -> "a" [] c = "B" -> "b" [] c = "P" -> "p" [] c = "I" -> "i"
      [] c = "F" -> "f" [] c = "D" -> "d" [] c = "T" -> "t" [] OTHER -> c

\* str.lower()
Lower(s) == [i \in 1..Len(s) |-> LowerChar(s[i])]

\* Python `sub in s` for str
StrIn(sub, s) ==
    \E off \in 0..(Len(s) - Len(sub)) :
        \A j \in 1..Len(sub) : s[off + j] = sub[j]

\* set(list)
ToSet(list) == {list[i] : i \in 1..Len(list)}

\* ------------------------------------------------------- the registry
\* agent_configs of main(): the specializations, in registry order
AgentConfigs == <<S_frontend, S_backend, S_database, S_testing>>

\* agent_configs of main(): the names, in registry order
AgentNames == <<"Frontend Specialist", "Backend Specialist",
                "Database Specialist", "Testing Specialist">>

\* AuggieAgent(...) as built by initialize_agents: status "idle", current_task None
NewAgent(k) ==
    [id |-> k,
     name |-> AgentNames[((k - 1) % Len(AgentNames)) + 1],
     specialization |-> AgentConfigs[((k - 1) % Len(AgentConfigs)) + 1],
     status |-> "idle",
     current_task |-> None]

\* Task(**task_data) as built by load_tasks_from_spec: status PENDING, no agent, no output
NewTask(i, comp, descr, fs, deps, ps) ==
    [id |-> i, description |-> descr, component |-> comp, files |-> fs,
     dependencies |-> deps, parallel_safe |-> ps, estimated_effort |-> 1,
     status |-> PENDING, assigned_agent |-> None, output_path |-> None]

\* ------------------------------------------------------------ matcher
\* the score of one agent for one task (the body of the scoring loop)
Score(agent, task) ==
    (IF StrIn(agent.specialization, Lower(task.component)) THEN 10 ELSE 0)
  + (IF StrIn(agent.specialization, Lower(task.description)) THEN 5 ELSE 0)

\* variant: an element goes before the elements of equal score
RECURSIVE InsertByScore_BeforeEqual(_, _)
InsertByScore_BeforeEqual(x, sorted) ==
    IF sorted = <<>> THEN <<x>>
    ELSE IF Head(sorted)[1] > x[1]
         THEN <<Head(sorted)>> \o InsertByScore_BeforeEqual(x, Tail(sorted))
         ELSE <<x>> \o sorted

\* list.sort(key=score, reverse=True) is stable: an element goes after all
\* elements whose score is greater or equal
RECURSIVE InsertByScore(_, _)
InsertByScore(x, sorted) ==
    IF sorted = <<>> THEN <<x>>
    ELSE IF Head(sorted)[1] >= x[1]
         THEN <<Head(sorted)>> \o InsertByScore(x, Tail(sorted))
         ELSE <<x>> \o sorted

RECURSIVE SortByScoreDesc(_, _)
SortByScoreDesc(list, n) ==
    IF n = 0 THEN <<>> ELSE InsertByScore(list[n], SortByScoreDesc(list, n - 1))

\* the values of a dict in insertion order (ids are 1..n, inserted ascending)
Values(d) == [i \in 1..Cardinality(DOMAIN d) |-> d[i]]

\* variant: an agent that holds a current task is not available
FindBestAgentForTask_FreeOnly(task, ags) ==
    LET available_agents == SelectSeq(Values(ags),
                                LAMBDA a : a.status = "idle" /\ a.current_task = None)
        scored_agents == [i \in 1..Len(available_agents) |->
                            <<Score(available_agents[i], task), available_agents[i].id>>]
        sorted == SortByScoreDesc(scored_agents, Len(scored_agents))
    IN  IF available_agents = <<>> THEN None ELSE sorted[1][2]

\* _find_best_agent_for_task: the id of the chosen agent, or None
FindBestAgentForTask(task, ags) ==
    LET available_agents == SelectSeq(Values(ags), LAMBDA a : a.status = "idle")
        scored_agents == [i \in 1..Len(available_agents) |->
                            <<Score(available_agents[i], task), available_agents[i].id>>]
        sorted == SortByScoreDesc(scored_agents, Len(scored_agents))
    IN  IF available_agents = <<>> THEN None ELSE sorted[1][2]

\* ------------------------------------------------------ _can_assign_task
\* variant: only a dependency that has not left PENDING blocks
DependenciesMet_NotPending(task, ts) ==
    \A k \in 1..Len(task.dependencies) :
        LET dep_id == task.dependencies[k]
        IN  dep_id \in DOMAIN ts => ts[dep_id].status # PENDING

\* the dependency loop: a dependency id that is not a key of self.tasks is skipped
DependenciesMet(task, ts) ==
    \A k \in 1..Len(task.dependencies) :
        LET dep_id == task.dependencies[k]
        IN  dep_id \in DOMAIN ts => ts[dep_id].status = COMPLETED

\* variant: the running task's flag decides as well
NoFileConflict_BothFlags(task, ts) ==
    task.parallel_safe
    \/ \A o \in DOMAIN ts :
          ~(ts[o].status = IN_PROGRESS
            /\ ~ts[o].parallel_safe
            /\ ts[o].id # task.id
            /\ ToSet(task.files) \cap ToSet(ts[o].files) # {})

\* the file-conflict loop
NoFileConflict(task, ts) ==
    task.parallel_safe
    \/ \A o \in DOMAIN ts :
          ~(ts[o].status = IN_PROGRESS
            /\ ts[o].id # task.id
            /\ ToSet(task.files) \cap ToSet(ts[o].files) # {})

\* variant: the dependency loop is left out
CanAssignTask_ConflictOnly(task, ts) == NoFileConflict(task, ts)

\* _can_assign_task
CanAssignTask(task, ts) == DependenciesMet(task, ts) /\ NoFileConflict(task, ts)

\* --------------------------------------------------------- assign_tasks
\* one iteration of the for loop, on the state st = [tasks, agents, assignments]
AssignOne(tid, st) ==
    LET task == st.tasks[tid]
        best_agent == FindBestAgentForTask(task, st.agents)
    IN  IF best_agent # None /\ CanAssignTask(task, st.tasks)
        THEN [tasks |-> [st.tasks EXCEPT ![tid].status = ASSIGNED,
                                         ![tid].assigned_agent = best_agent],
              agents |-> [st.agents EXCEPT ![best_agent].current_task = tid],
              assignments |-> Append(st.assignments, <<tid, best_agent>>)]
        ELSE st

\* (the next list and state are bound by a set so that each is computed once)
RECURSIVE AssignLoop(_, _)
AssignLoop(available_tasks, st) ==
    IF available_tasks = <<>> THEN st
    ELSE CHOOSE result \in
            {AssignLoop(rest, next) :
                rest \in {Tail(available_tasks)},
                next \in {AssignOne(Head(available_tasks).id, st)}} : TRUE

\* the whole of assign_tasks: the dict is walked in insertion order
AssignResult(ts, ags) ==
    CHOOSE result \in
        {AssignLoop(available_tasks, [tasks |-> ts, agents |-> ags, assignments |-> <<>>]) :
            available_tasks \in {SelectSeq(Values(ts), LAMBDA t : t.status = PENDING)}} : TRUE

\* variant: the pending tasks are walked in either direction
AssignOutcomes_AnyDirection(ts, ags) ==
    {AssignLoop(l, [tasks |-> ts, agents |-> ags, assignments |-> <<>>]) :
        l \in {SelectSeq(Values(ts), LAMBDA t : t.status = PENDING),
               SelectSeq([i \in 1..Cardinality(DOMAIN ts) |->
                             ts[Cardinality(DOMAIN ts) + 1 - i]],
                         LAMBDA t : t.status = PENDING)}}

\* the outcomes a call of assign_tasks can have on the state (ts, ags)
AssignOutcomes(ts, ags) == {AssignResult(ts, ags)}

\* ----------------------------------------------------- get_status_report
\* variant: the report shows no agent with a current task
StatusReport_NoCurrentTask(ts, ags) ==
    [agents |-> [a \in DOMAIN ags |->
                    [name |-> ags[a].name, specialization |-> ags[a].specialization,
                     status |-> ags[a].status, current_task |-> None]],
     tasks |-> [t \in DOMAIN ts |->
                    [description |-> ts[t].description, status |-> ts[t].status,
                     assigned_agent |-> ts[t].assigned_agent,
                     component |-> ts[t].component]]]

\* the dict returned by get_status_report (TaskStatus.value is the string
\* that stands for the status here)
StatusReport(ts, ags) ==
    [agents |-> [a \in DOMAIN ags |->
                    [name |-> ags[a].name, specialization |-> ags[a].specialization,
                     status |-> ags[a].status, current_task |-> ags[a].current_task]],
     tasks |-> [t \in DOMAIN ts |->
                    [description |-> ts[t].description, status |-> ts[t].status,
                     assigned_agent |-> ts[t].assigned_agent,
                     component |-> ts[t].component]]]

\* --------------------------------------------------------- execute_task
NoExec == [state |-> "none", task |-> None, outcome |-> "none", ret |-> "none"]

\* variant: the finally clause resets the status only
Finally_StatusOnly(ags, a) == [ags EXCEPT ![a].status = "idle"]

\* variant: the except clause only logs
OnException_LogOnly(ts, t) == ts

\* the finally clause
Finally(ags, a) == [ags EXCEPT ![a].status = "idle", ![a].current_task = None]

\* the except clause
OnException(ts, t) == [ts EXCEPT ![t].status = FAILED]

\* variant: a failed task is made pending again
OnFailure_Retry(ts, t) == [ts EXCEPT ![t].status = PENDING]

\* the else branch of `if result.returncode == 0`
OnFailure(ts, t) == [ts EXCEPT ![t].status = FAILED]

\* variant: the success branch also empties the file list of the task
OnSuccess_ClearsFiles(ts, t, a) ==
    [ts EXCEPT ![t].status = COMPLETED, ![t].output_path = a, ![t].files = <<>>]

\* the then branch up to the call of _merge_task_results
\* (the output location is the working directory of the executing agent)
OnSuccess(ts, t, a) == [ts EXCEPT ![t].status = COMPLETED, ![t].output_path = a]

\* variant: every returncode takes the success branch
ReturncodeOk_Always(rc) == TRUE

\* `if result.returncode == 0`
ReturncodeOk(rc) == rc = 0

\* variant: the except clause catches the cancellation as well
OnCancelled_Caught(ts, t) == [ts EXCEPT ![t].status = FAILED]

\* CancelledError at the await of the worker: it is no Exception, so the except
\* clause does not run and the status is left as it is
OnCancelled(ts, t) == ts

\* variant: only completed tasks count as finished
RemainingTasks_NotCompleted(ts) == {t \in DOMAIN ts : ts[t].status # COMPLETED}

\* remaining_tasks of the end-of-round check
RemainingTasks(ts) == {t \in DOMAIN ts : ts[t].status \notin {COMPLETED, FAILED}}

\* no helper has been called directly
NoCall == [op |-> "none"]

\* variant: other steps may run between `task.status = COMPLETED` and the end
\* of _merge_task_results
NoMerging_Interleaved == TRUE

\* no execution is between `task.status = COMPLETED` and the end of
\* _merge_task_results (that stretch has no suspension point)
NoMerging == \A a \in AgentIds : exec[a].state # "merging"

\* ------------------------------------------------------------- inputs
\* The task records tasks.md can produce, within the bounds.  A task touches
\* the shared file app.py, has a component that matches no agent ("general")
\* or the second agent ("backend-api"), is parallel-safe or not, and depends on
\* nothing or on the previous task; besides these, a task that depends on an id
\* that is no task, and a task with an empty file list.
Components == {S_general, S_backend_api}
UnknownId == NumTasks + 1
TaskProfiles ==
    {[component |-> c, files |-> <<"app.py">>, dep |-> d, parallel_safe |-> p] :
        c \in Components, d \in {"none", "prev"}, p \in BOOLEAN}
    \cup {[component |-> S_general, files |-> <<"app.py">>, dep |-> "unknown",
           parallel_safe |-> FALSE],
          [component |-> S_backend_api, files |-> <<>>, dep |-> "none",
           parallel_safe |-> FALSE]}
DepList(i, kind) ==
    CASE kind = "prev" /\ i > 1 -> <<i - 1>>
      [] kind = "unknown" -> <<UnknownId>>
      [] OTHER -> <<>>

TypeOK ==
    /\ pc \in {"assign", "launch", "wait", "check", "sleep", "done", "helper"}
    /\ \A t \in TaskIds : tasks[t].status \in TaskStatus
    /\ \A a \in AgentIds : agents[a].status \in {"idle", "working"}

\* (tasks.md may also be missing or hold no task: the graph is then empty)
Init ==
    /\ \/ \E pr \in [1..NumTasks -> TaskProfiles] :
             tasks = [i \in 1..NumTasks |->
                         NewTask(i, pr[i].component, S_empty, pr[i].files,
                                 DepList(i, pr[i].dep), pr[i].parallel_safe)]
       \/ tasks = <<>>
    /\ agents = [k \in 1..NumAgents |-> NewAgent(k)]
    /\ pc = "assign"
    /\ exec = [k \in 1..NumAgents |-> NoExec]
    /\ assignments = <<>>
    /\ workerCalls = [t \in DOMAIN tasks |-> 0]
    /\ mergeCalls = [t \in DOMAIN tasks |-> 0]
    /\ call = NoCall

\* ------------------------------------------------------------ orchestrate
\* `await self.assign_tasks()`
AssignTasks ==
    /\ pc = "assign"
    /\ \E r \in AssignOutcomes(tasks, agents) :
           /\ tasks' = r.tasks
           /\ agents' = r.agents
           /\ assignments' = r.assignments
    /\ pc' = "launch"
    /\ UNCHANGED <<exec, workerCalls, mergeCalls, call>>

\* the agents whose execute_task coroutine is put into active_tasks
Launched(ts, ags) ==
    {a \in DOMAIN ags :
        /\ ags[a].current_task # None
        /\ ts[ags[a].current_task].status = ASSIGNED}

\* the for loop that builds active_tasks, and `if active_tasks:` up to the
\* suspension in asyncio.wait
LaunchExecutions ==
    /\ pc = "launch"
    /\ exec' = [a \in AgentIds |->
                  IF a \in Launched(tasks, agents)
                  THEN [state |-> "created", task |-> agents[a].current_task,
                        outcome |-> "none", ret |-> "none"]
                  ELSE NoExec]
    /\ pc' = IF Launched(tasks, agents) # {} THEN "wait" ELSE "check"
    /\ UNCHANGED <<tasks, agents, assignments, workerCalls, mergeCalls, call>>

\* first step of execute_task(agent, task), up to the await of the worker
StartExecution(a) ==
    /\ pc = "wait"
    /\ exec[a].state = "created"
    /\ tasks' = [tasks EXCEPT ![exec[a].task].status = IN_PROGRESS]
    /\ agents' = [agents EXCEPT ![a].status = "working"]
    /\ exec' = [exec EXCEPT ![a].state = "running"]
    /\ workerCalls' = [workerCalls EXCEPT ![exec[a].task] = @ + 1]
    /\ UNCHANGED <<pc, assignments, mergeCalls, call>>

AllStarted == \A a \in AgentIds : exec[a].state # "created"

\* _run_auggie_command returns a CompletedProcess with returncode rc: the
\* if/else on the returncode, up to the call of _merge_task_results or to the
\* end of execute_task
WorkerReturns(a, rc) ==
    /\ pc = "wait" /\ AllStarted /\ NoMerging
    /\ exec[a].state = "running"
    /\ IF ReturncodeOk(rc)
       THEN /\ tasks' = OnSuccess(tasks, exec[a].task, a)
            /\ mergeCalls' = [mergeCalls EXCEPT ![exec[a].task] = @ + 1]
            /\ exec' = [exec EXCEPT ![a].state = "merging",
                                     ![a].outcome = IF rc = 0 THEN "rc0" ELSE "rc1"]
            /\ UNCHANGED agents
       ELSE /\ tasks' = OnFailure(tasks, exec[a].task)
            /\ agents' = Finally(agents, a)
            /\ exec' = [exec EXCEPT ![a].state = "done",
                                     ![a].outcome = IF rc = 0 THEN "rc0" ELSE "rc1",
                                     ![a].ret = "False"]
            /\ UNCHANGED mergeCalls
    /\ UNCHANGED <<pc, assignments, workerCalls, call>>

\* returncode 0
WorkerSucceeds(a) == WorkerReturns(a, 0)

\* a returncode that is not 0
WorkerFails(a) == WorkerReturns(a, 1)

\* _run_auggie_command raises an Exception (the sub-process cannot be
\* created, its output cannot be decoded)
WorkerRaises(a) ==
    /\ pc = "wait" /\ AllStarted /\ NoMerging
    /\ exec[a].state = "running"
    /\ tasks' = OnException(tasks, exec[a].task)
    /\ agents' = Finally(agents, a)
    /\ exec' = [exec EXCEPT ![a].state = "done", ![a].outcome = "raised", ![a].ret = "False"]
    /\ UNCHANGED <<pc, assignments, workerCalls, mergeCalls, call>>

\* _merge_task_results returns; `return True`
MergeReturns(a) ==
    /\ exec[a].state = "merging"
    /\ agents' = Finally(agents, a)
    /\ exec' = [exec EXCEPT ![a].state = "done", ![a].ret = "True"]
    /\ UNCHANGED <<tasks, pc, assignments, workerCalls, mergeCalls, call>>

\* _merge_task_results raises (mkdir or shutil.copy2 fails): the except clause runs
MergeRaises(a) ==
    /\ exec[a].state = "merging"
    /\ ToSet(tasks[exec[a].task].files) # {}
    /\ tasks' = OnException(tasks, exec[a].task)
    /\ agents' = Finally(agents, a)
    /\ exec' = [exec EXCEPT ![a].state = "done", ![a].outcome = "merge_raised",
                             ![a].ret = "False"]
    /\ UNCHANGED <<pc, assignments, workerCalls, mergeCalls, call>>

\* variant: the wait returns although no execution is done
FirstCompleted_Immediately(ex) == TRUE

\* return_when=asyncio.FIRST_COMPLETED: some execution is done
FirstCompleted(ex) == \E a \in DOMAIN ex : ex[a].state = "done"

\* asyncio.wait(..., FIRST_COMPLETED) returns, and the executions that are not
\* done are cancelled
WaitFirstCompleted ==
    /\ pc = "wait" /\ AllStarted /\ NoMerging
    /\ FirstCompleted(exec)
    /\ exec' = [a \in AgentIds |->
                  IF exec[a].state = "running"
                  THEN [exec[a] EXCEPT !.state = "cancelling"] ELSE exec[a]]
    /\ pc' = "check"
    /\ UNCHANGED <<tasks, agents, assignments, workerCalls, mergeCalls, call>>

\* the end-of-round check: break, or asyncio.sleep(1)
CheckRemaining ==
    /\ pc = "check"
    /\ pc' = IF RemainingTasks(tasks) = {} THEN "done" ELSE "sleep"
    /\ UNCHANGED <<tasks, agents, exec, assignments, workerCalls, mergeCalls, call>>

\* CancelledError is thrown into a cancelled execution at the await of the
\* worker: no except clause catches it, the finally clause runs
CancelDelivered(a) ==
    /\ pc = "sleep"
    /\ exec[a].state = "cancelling"
    /\ tasks' = OnCancelled(tasks, exec[a].task)
    /\ agents' = Finally(agents, a)
    /\ exec' = [exec EXCEPT ![a].state = "cancelled", ![a].ret = "CancelledError"]
    /\ UNCHANGED <<pc, assignments, workerCalls, mergeCalls, call>>

\* asyncio.sleep(1) returns: next iteration of `while True`
SleepReturns ==
    /\ pc = "sleep"
    /\ \A a \in AgentIds : exec[a].state # "cancelling"
    /\ pc' = "assign"
    /\ UNCHANGED <<tasks, agents, exec, assignments, workerCalls, mergeCalls, call>>

Next ==
    \/ AssignTasks
    \/ LaunchExecutions
    \/ \E a \in AgentIds : StartExecution(a)
    \/ \E a \in AgentIds : WorkerSucceeds(a)
    \/ \E a \in AgentIds : WorkerFails(a)
    \/ \E a \in AgentIds : WorkerRaises(a)
    \/ \E a \in AgentIds : MergeReturns(a)
    \/ \E a \in AgentIds : MergeRaises(a)
    \/ WaitFirstCompleted
    \/ CheckRemaining
    \/ \E a \in AgentIds : CancelDelivered(a)
    \/ SleepReturns

Spec == Init /\ [][Next]_vars

\* ------------------------------------------------- a four-task scenario
\* T1 and T2 are independent and prefer different agents; T3 and T4 both
\* depend on T2 only; T1 and T4 touch app.py and are not parallel-safe.
ScenarioTasks == 4
ScenarioGraph ==
    [i \in 1..ScenarioTasks |->
        CASE i = 1 -> NewTask(1, S_backend_api, S_empty, <<"app.py">>, <<>>, FALSE)
          [] i = 2 -> NewTask(2, S_general, S_empty, <<>>, <<>>, FALSE)
          [] i = 3 -> NewTask(3, S_general, S_empty, <<>>, <<2>>, FALSE)
          [] OTHER -> NewTask(i, S_general, S_empty, <<"app.py">>, <<2>>, FALSE)]

InitScenario ==
    /\ tasks = ScenarioGraph
    /\ agents = [k \in 1..NumAgents |-> NewAgent(k)]
    /\ pc = "assign"
    /\ exec = [k \in 1..NumAgents |-> NoExec]
    /\ assignments = <<>>
    /\ workerCalls = [t \in DOMAIN tasks |-> 0]
    /\ mergeCalls = [t \in DOMAIN tasks |-> 0]
    /\ call = NoCall

\* The event loop runs every step that is ready: the coordinating flow, the
\* first step and the cancellation of every execution; and every call of the
\* worker and of the merge step ends.
Fairness ==
    /\ WF_vars(AssignTasks) /\ WF_vars(LaunchExecutions) /\ WF_vars(WaitFirstCompleted)
    /\ WF_vars(CheckRemaining) /\ WF_vars(SleepReturns)
    /\ \A a \in 1..NumAgents :
          /\ WF_vars(StartExecution(a))
          /\ WF_vars(WorkerSucceeds(a) \/ WorkerFails(a) \/ WorkerRaises(a))
          /\ WF_vars(MergeReturns(a) \/ MergeRaises(a))
          /\ WF_vars(CancelDelivered(a))

FairScenarioSpec == InitScenario /\ [][Next]_vars /\ Fairness

\* ------------------------------------------ a worker that always succeeds
\* The graphs of Init whose dependencies all name tasks of the graph (they
\* point to the previous task, so they are acyclic); every call of the worker
\* returns returncode 0 and every merge returns.
InitResolvable ==
    /\ Init
    /\ \A t \in DOMAIN tasks : ToSet(tasks[t].dependencies) \subseteq DOMAIN tasks

NextSuccess ==
    \/ AssignTasks
    \/ LaunchExecutions
    \/ \E a \in AgentIds : StartExecution(a)
    \/ \E a \in AgentIds : WorkerSucceeds(a)
    \/ \E a \in AgentIds : MergeReturns(a)
    \/ WaitFirstCompleted
    \/ CheckRemaining
    \/ \E a \in AgentIds : CancelDelivered(a)
    \/ SleepReturns

FairnessSuccess ==
    /\ WF_vars(AssignTasks) /\ WF_vars(LaunchExecutions) /\ WF_vars(WaitFirstCompleted)
    /\ WF_vars(CheckRemaining) /\ WF_vars(SleepReturns)
    /\ \A a \in 1..NumAgents :
          /\ WF_vars(StartExecution(a))
          /\ WF_vars(WorkerSucceeds(a))
          /\ WF_vars(MergeReturns(a))
          /\ WF_vars(CancelDelivered(a))

FairSuccessSpec == InitResolvable /\ [][NextSuccess]_vars /\ FairnessSuccess

\* ------------------------------------- _find_best_agent_for_task, called
\* One candidate task (id 1) and a registry of agents of any specialization,
\* each idle or working on a task of its own (ids 2, 3, ...).
MatchSpecializations == {S_backend, S_frontend, S_Backend}
MatchComponents == {S_backend_api, S_Backend_API, S_general}
MatchDescriptions == {S_empty, S_Backend}

InitMatch ==
    /\ \E c \in MatchComponents, d \in MatchDescriptions,
          sp \in [1..NumAgents -> MatchSpecializations],
          busy \in SUBSET (1..NumAgents) :
          /\ tasks = [i \in 1..(NumAgents + 1) |->
                        IF i = 1 THEN NewTask(1, c, d, <<>>, <<>>, FALSE)
                        ELSE [NewTask(i, S_general, S_empty, <<>>, <<>>, FALSE)
                                EXCEPT !.status = IF (i - 1) \in busy
                                                  THEN IN_PROGRESS ELSE COMPLETED,
                                       !.assigned_agent = i - 1]]
          /\ agents = [k \in 1..NumAgents |->
                         [id |-> k, name |-> NewAgent(k).name,
                          specialization |-> sp[k],
                          status |-> IF k \in busy THEN "working" ELSE "idle",
                          current_task |-> IF k \in busy THEN k + 1 ELSE None]]
    /\ pc = "helper"
    /\ exec = [k \in 1..NumAgents |-> NoExec]
    /\ assignments = <<>>
    /\ workerCalls = [t \in DOMAIN tasks |-> 0]
    /\ mergeCalls = [t \in DOMAIN tasks |-> 0]
    /\ call = NoCall

\* self._find_best_agent_for_task(task): the result, and the score the loop
\* computed for every agent it scored
CallFindBestAgentForTask ==
    /\ pc = "helper"
    /\ call' = [op |-> "_find_best_agent_for_task", task |-> 1,
                result |-> FindBestAgentForTask(tasks[1], agents),
                scores |-> [a \in {k \in AgentIds : agents[k].status = "idle"} |->
                              Score(agents[a], tasks[1])]]
    /\ UNCHANGED <<tasks, agents, pc, exec, assignments, workerCalls, mergeCalls>>

MatchSpec == InitMatch /\ [][CallFindBestAgentForTask]_vars

\* --------------------------------------------- _can_assign_task, called
\* Tasks without dependencies, each pending or in progress, with any of a few
\* file lists and either flag; task i runs on agent ((i - 1) mod NumAgents) + 1.
ConflictFiles == {<<>>, <<"a.py">>, <<"a.py", "b.py">>}
AgentOf(i) == ((i - 1) % NumAgents) + 1

InitConflict ==
    /\ \E st \in [1..NumTasks -> {PENDING, IN_PROGRESS}],
          fs \in [1..NumTasks -> ConflictFiles],
          ps \in [1..NumTasks -> BOOLEAN] :
          /\ tasks = [i \in 1..NumTasks |->
                        [NewTask(i, S_general, S_empty, fs[i], <<>>, ps[i])
                            EXCEPT !.status = st[i],
                                   !.assigned_agent = IF st[i] = IN_PROGRESS
                                                      THEN AgentOf(i) ELSE None]]
          /\ agents = [k \in 1..NumAgents |->
                         LET mine == {i \in 1..NumTasks :
                                         st[i] = IN_PROGRESS /\ AgentOf(i) = k}
                         IN  [NewAgent(k) EXCEPT
                                !.status = IF mine = {} THEN "idle" ELSE "working",
                                !.current_task =
                                    IF mine = {} THEN None
                                    ELSE CHOOSE i \in mine : \A j \in mine : j <= i]]
    /\ pc = "helper"
    /\ exec = [k \in 1..NumAgents |-> NoExec]
    /\ assignments = <<>>
    /\ workerCalls = [t \in DOMAIN tasks |-> 0]
    /\ mergeCalls = [t \in DOMAIN tasks |-> 0]
    /\ call = NoCall

\* self._can_assign_task(task)
CallCanAssignTask(t) ==
    /\ pc = "helper"
    /\ call' = [op |-> "_can_assign_task", task |-> t,
                result |-> CanAssignTask(tasks[t], tasks)]
    /\ UNCHANGED <<tasks, agents, pc, exec, assignments, workerCalls, mergeCalls>>

NextConflict == \E t \in TaskIds : CallCanAssignTask(t)

ConflictSpec == InitConflict /\ [][NextConflict]_vars

\* --------------------------------- a run observed by a direct call
\* The orchestrator runs on a graph of ObservedTasks tasks until another
\* caller, at a point where orchestrate is suspended or has returned, takes a
\* status report, or until assign_tasks is run twice on copies of the state
\* at the entry of an assign phase; the run is followed up to that call.
ObservedTasks == 2

InitObserved ==
    /\ \E pr \in [1..ObservedTasks -> TaskProfiles] :
          tasks = [i \in 1..ObservedTasks |->
                      NewTask(i, pr[i].component, S_empty, pr[i].files,
                              DepList(i, pr[i].dep), pr[i].parallel_safe)]
    /\ agents = [k \in 1..NumAgents |-> NewAgent(k)]
    /\ pc = "assign"
    /\ exec = [k \in 1..NumAgents |-> NoExec]
    /\ assignments = <<>>
    /\ workerCalls = [t \in DOMAIN tasks |-> 0]
    /\ mergeCalls = [t \in DOMAIN tasks |-> 0]
    /\ call = NoCall

\* self.get_status_report()
GetStatusReport ==
    /\ pc \in {"wait", "sleep", "done"} /\ AllStarted /\ NoMerging
    /\ call' = [op |-> "get_status_report", result |-> StatusReport(tasks, agents)]
    /\ UNCHANGED <<tasks, agents, pc, exec, assignments, workerCalls, mergeCalls>>

\* assign_tasks, run on two copies of the state
CallAssignTasksTwice ==
    /\ pc = "assign" /\ call = NoCall
    /\ \E r1 \in AssignOutcomes(tasks, agents), r2 \in AssignOutcomes(tasks, agents) :
          call' = [op |-> "assign_tasks", first |-> r1, second |-> r2]
    /\ UNCHANGED <<tasks, agents, pc, exec, assignments, workerCalls, mergeCalls>>

OrchestratorStep == call = NoCall /\ Next

ObservedNext == OrchestratorStep \/ GetStatusReport \/ CallAssignTasksTwice

ObservedSpec == InitObserved /\ [][ObservedNext]_vars

\* ================================================================ claims
Deps(t) == ToSet(tasks[t].dependencies)
Files(t) == ToSet(tasks[t].files)

\* C1: a task in status assigned has every dependency that is a task of the
\* graph in status completed (so it was so when the task was assigned, and no
\* task is assigned while a prerequisite is pending, assigned, in_progress,
\* failed or blocked).
C1_AssignedOnlyAfterDependencies ==
    \A t \in TaskIds :
        tasks[t].status = ASSIGNED =>
            \A d \in Deps(t) \cap TaskIds : tasks[d].status = COMPLETED

\* a task with a dependency in the graph has been assigned
C1_Witness ==
    \E t \in TaskIds : tasks[t].status = ASSIGNED /\ Deps(t) \cap TaskIds # {}

\* C2: two distinct tasks that are both in_progress and share a file are both
\* parallel-safe.
C2_OverlapOnlyIfBothParallelSafe ==
    \A t, u \in TaskIds :
        (t # u /\ tasks[t].status = IN_PROGRESS /\ tasks[u].status = IN_PROGRESS
             /\ Files(t) \cap Files(u) # {})
        => (tasks[t].parallel_safe /\ tasks[u].parallel_safe)

\* C3: every change of a task's status is pending->assigned,
\* assigned->in_progress, in_progress->completed or in_progress->failed.
LegalTransitions ==
    {<<PENDING, ASSIGNED>>, <<ASSIGNED, IN_PROGRESS>>,
     <<IN_PROGRESS, COMPLETED>>, <<IN_PROGRESS, FAILED>>}
C3_StatusOnlyAdvances ==
    [][\A t \in TaskIds :
          tasks'[t].status # tasks[t].status
          => <<tasks[t].status, tasks'[t].status>> \in LegalTransitions]_vars

\* C4: an agent is "working" iff its current_task is set.
C4_WorkingIffCurrentTask ==
    \A a \in AgentIds : (agents[a].status = "working") <=> (agents[a].current_task # None)

\* C5: a task with a dependency that is no task of the graph stays pending.
C5_UnknownDependencyNeverUnblocks ==
    \A t \in TaskIds : (Deps(t) \ TaskIds # {}) => tasks[t].status = PENDING

\* C6: when a task is pending, no pending task is unblocked and nothing is in
\* flight, the loop stops (blocked) instead of going on to the next iteration.
StallCondition ==
    /\ \E t \in TaskIds : tasks[t].status = PENDING
    /\ \A t \in TaskIds : tasks[t].status = PENDING => ~DependenciesMet(tasks[t], tasks)
    /\ \A t \in TaskIds : tasks[t].status \notin {ASSIGNED, IN_PROGRESS}
    /\ \A a \in AgentIds : exec[a].state \in {"none", "done", "cancelled"}
C6_StallStopsTheLoop == StallCondition => pc \notin {"sleep", "assign", "launch"}

\* C7: in one assign phase each agent gets at most one task and each task at
\* most one agent.
C7_OnePairingPerAgentPerPhase ==
    \A i, j \in 1..Len(assignments) :
        i # j => (assignments[i][1] # assignments[j][1]
                  /\ assignments[i][2] # assignments[j][2])

\* C8: when an execution of execute_task ends (return or cancellation), its
\* agent is idle with no current task.
Ended(e) == e.state \in {"done", "cancelled"}
C8_AgentFreedWhenExecutionEnds ==
    [][\A a \in AgentIds :
          (~Ended(exec[a]) /\ Ended(exec'[a]))
          => (agents'[a].status = "idle" /\ agents'[a].current_task = None)]_vars

\* an execution was cancelled and another ended by an exception of the merge step
C8_Witness ==
    /\ \E a \in AgentIds : exec[a].state = "cancelled" /\ agents[a].status = "idle"
    /\ \E b \in AgentIds : exec[b].state = "done" /\ agents[b].current_task = None

\* C9: once the worker has reported failure (non-zero return code) for task
\* x, every other task y that is pending, has its dependencies completed and
\* does not depend on x is eventually executed (reaches in_progress or a later
\* status).
WorkerFailed(x) == \E a \in AgentIds : exec[a].task = x /\ exec[a].outcome = "rc1"
C9_FailureDoesNotHaltOthers ==
    \A x, y \in 1..ScenarioTasks :
        (x # y) =>
        ((WorkerFailed(x) /\ tasks[y].status = PENDING
             /\ DependenciesMet(tasks[y], tasks) /\ x \notin Deps(y))
         ~> (tasks[y].status \in {IN_PROGRESS, COMPLETED, FAILED}))

\* C10: when the worker raised, the task is failed and execute_task has
\* returned normally (False).
C10_WorkerErrorRecordedNotRaised ==
    \A a \in AgentIds :
        exec[a].outcome = "raised"
        => (tasks[exec[a].task].status = FAILED /\ exec[a].state = "done"
            /\ exec[a].ret = "False")

\* the worker raised for a task and the loop went on to its next iteration
C10_Witness ==
    \E a \in AgentIds : exec[a].outcome = "raised" /\ pc = "assign"

\* C11: the merge step is called for a task only in the step in which the
\* worker returned success for that task, and after a failure result or an
\* error raised by the worker the task is failed and no merge was ever called
\* for it.
C11_MergeOnlyAfterWorkerSuccess ==
    [][/\ \A t \in TaskIds :
             mergeCalls'[t] # mergeCalls[t]
             => \E a \in AgentIds :
                   /\ exec[a].task = t /\ exec[a].state = "running"
                   /\ exec'[a].outcome = "rc0"
       /\ \A a \in AgentIds :
             exec'[a].outcome \in {"rc1", "raised"}
             => (tasks'[exec'[a].task].status = FAILED
                 /\ mergeCalls'[exec'[a].task] = 0)]_vars

\* one execution of the round failed without a merge, another is in its merge
C11_Witness ==
    \E a, b \in AgentIds :
        /\ exec[a].outcome = "rc1" /\ mergeCalls[exec[a].task] = 0
        /\ exec[b].state = "merging" /\ mergeCalls[exec[b].task] = 1

\* C12: after the merge step raised, the task is still completed.
C12_CompletedSurvivesMergeError ==
    \A a \in AgentIds :
        exec[a].outcome = "merge_raised" => tasks[exec[a].task].status = COMPLETED

\* C13: the loop reaches its end only in a state where every task is
\* completed or failed, and an end-of-round check made in such a state (the
\* empty graph included) ends the loop.
AllFinished == \A t \in TaskIds : tasks[t].status \in {COMPLETED, FAILED}
C13_StopsExactlyWhenAllFinished ==
    [][/\ (pc # "done" /\ pc' = "done") => (pc = "check" /\ AllFinished)
       /\ (pc = "check" /\ AllFinished) => pc' = "done"]_vars

\* the loop has ended on a graph that holds a failed task
C13_Witness ==
    pc = "done" /\ \E t \in TaskIds : tasks[t].status = FAILED

\* C14: a task that is in_progress leaves that status only in the step in
\* which its worker returns or raises; the cancellation of its execution, and
\* every later round, leaves it in_progress.
C14_CancelledTaskStaysInProgress ==
    [][\A t \in TaskIds :
          (tasks[t].status = IN_PROGRESS /\ tasks'[t].status # IN_PROGRESS)
          => \E a \in AgentIds :
                /\ exec[a].task = t /\ exec[a].state = "running"
                /\ exec'[a].outcome \in {"rc0", "rc1", "raised"}]_vars

\* an execution was cancelled, the next iteration has begun, and its task is
\* in_progress
C14_Witness ==
    /\ pc = "assign"
    /\ \E a \in AgentIds :
          exec[a].state = "cancelled" /\ tasks[exec[a].task].status = IN_PROGRESS

\* C15: for tasks A without dependencies and B that depends on A, shares a
\* file with A and is not parallel-safe: whenever B has left pending (it is
\* or was assigned), A is completed; so A was assigned before B.
IsPairAB(x, y) ==
    /\ x # y /\ Deps(x) = {} /\ x \in Deps(y)
    /\ Files(x) \cap Files(y) # {} /\ ~tasks[y].parallel_safe
C15_DependentAssignedAfterCompletion ==
    \A x, y \in TaskIds :
        (IsPairAB(x, y) /\ tasks[y].status # PENDING) => tasks[x].status = COMPLETED

\* B of such a pair is assigned
C15_Witness ==
    \E x, y \in TaskIds : IsPairAB(x, y) /\ tasks[y].status = ASSIGNED

\* C16: a call of _find_best_agent_for_task returns None iff no agent is
\* idle; otherwise an idle agent of maximal score, the first in registry
\* order among those; with agents "backend" and "frontend", all idle, and
\* component "backend-api" it returns a "backend" agent.
IdleAgents == {a \in AgentIds : agents[a].status = "idle"}
C16_BestAgentIsFirstMaximalIdle ==
    call.op = "_find_best_agent_for_task" =>
        /\ (call.result = None) <=> (IdleAgents = {})
        /\ call.result # None =>
              /\ call.result \in IdleAgents
              /\ \A b \in IdleAgents :
                    \/ call.scores[b] < call.scores[call.result]
                    \/ call.scores[b] = call.scores[call.result] /\ call.result <= b
        /\ ({agents[a].specialization : a \in AgentIds} = {S_backend, S_frontend}
               /\ IdleAgents = AgentIds /\ tasks[call.task].component = S_backend_api)
           => agents[call.result].specialization = S_backend

\* the call chose the first of two idle agents of equal score
C16_Witness ==
    /\ call.op = "_find_best_agent_for_task"
    /\ call.result # None
    /\ \E b \in IdleAgents :
          b > call.result /\ call.scores[b] = call.scores[call.result]

\* C17: the score computed for an agent is 10 if its specialization, in
\* lower case, is a substring of the component in lower case, plus 5 if it is
\* a substring of the description in lower case.
CaseInsensitiveScore(agent, task) ==
    (IF StrIn(Lower(agent.specialization), Lower(task.component)) THEN 10 ELSE 0)
  + (IF StrIn(Lower(agent.specialization), Lower(task.description)) THEN 5 ELSE 0)
C17_ScoreIgnoresCaseOnBothSides ==
    call.op = "_find_best_agent_for_task" =>
        \A a \in DOMAIN call.scores :
            /\ call.scores[a] = CaseInsensitiveScore(agents[a], tasks[call.task])
            /\ call.scores[a] \in {0, 5, 10, 15}

\* C18: a call of _can_assign_task for a task without dependencies returns
\* False iff the task is not parallel-safe and another task that is
\* in_progress shares a file with it.
C18_ConflictIffNonParallelSafeOverlap ==
    call.op = "_can_assign_task" =>
        ((call.result = FALSE) <=>
            (/\ ~tasks[call.task].parallel_safe
             /\ \E o \in TaskIds :
                   /\ o # call.task /\ tasks[o].status = IN_PROGRESS
                   /\ Files(o) \cap Files(call.task) # {}))

\* the call rejected a pending task that is not parallel-safe because of a
\* parallel-safe running task, while a running task without files is there
\* as well
C18_Witness ==
    /\ call.op = "_can_assign_task"
    /\ call.result = FALSE
    /\ tasks[call.task].status = PENDING
    /\ \E o \in TaskIds :
          /\ o # call.task /\ tasks[o].status = IN_PROGRESS /\ tasks[o].parallel_safe
          /\ Files(o) \cap Files(call.task) # {}
    /\ \E e \in TaskIds : e # call.task /\ tasks[e].status = IN_PROGRESS /\ Files(e) = {}

\* C19: after the execute phase of a round no task is in status assigned.
C19_NoTaskStaysAssigned ==
    pc \in {"check", "sleep", "done"} => \A t \in TaskIds : tasks[t].status # ASSIGNED

\* C20: no two distinct in_progress tasks name the same agent.
C20_OneInFlightTaskPerAgent ==
    \A t, u \in TaskIds :
        (t # u /\ tasks[t].status = IN_PROGRESS /\ tasks[u].status = IN_PROGRESS)
        => tasks[t].assigned_agent # tasks[u].assigned_agent

\* C21: a call of get_status_report leaves every task and every agent as it
\* was, and the report shows each task's status and assigned_agent and each
\* agent's status and current_task as they are.
C21_StatusReportIsReadOnly ==
    [][call'.op = "get_status_report" =>
          /\ tasks' = tasks /\ agents' = agents
          /\ DOMAIN call'.result.tasks = TaskIds
          /\ DOMAIN call'.result.agents = AgentIds
          /\ \A t \in TaskIds :
                /\ call'.result.tasks[t].status = tasks[t].status
                /\ call'.result.tasks[t].assigned_agent = tasks[t].assigned_agent
          /\ \A a \in AgentIds :
                /\ call'.result.agents[a].status = agents[a].status
                /\ call'.result.agents[a].current_task = agents[a].current_task]_vars

\* a report taken while an agent works on a task
C21_Witness ==
    /\ call.op = "get_status_report"
    /\ \E a \in AgentIds :
          /\ call.result.agents[a].status = "working"
          /\ call.result.agents[a].current_task # None
          /\ call.result.tasks[call.result.agents[a].current_task].status = IN_PROGRESS

C23_WaitsForOneExecution ==
    (pc \in {"check", "sleep", "assign"} /\ \E a \in AgentIds : exec[a].state # "none")
    => \E a \in AgentIds : exec[a].state = "done"

\* the next assign phase begins with one execution done and another cancelled
C23_Witness ==
    /\ pc = "assign"
    /\ \E a, b \in AgentIds : exec[a].state = "done" /\ exec[b].state = "cancelled"

\* C24: at the entry of an assign phase no execution is alive (so none acts
\* before its exit), and at most one execution is between setting its task
\* completed and the end of its merge.
C24_UpdatesDoNotInterleave ==
    /\ pc = "assign" => \A a \in AgentIds : exec[a].state \in {"none", "done", "cancelled"}
    /\ Cardinality({a \in AgentIds : exec[a].state = "merging"}) <= 1

\* an execution applies its completion while another is still running
C24_Witness ==
    \E a, b \in AgentIds : exec[a].state = "merging" /\ exec[b].state = "running"

\* C25: the agent named by an assigned or in_progress task has that task as
\* its current_task.
C25_AssignmentLinksAgree ==
    \A t \in TaskIds :
        tasks[t].status \in {ASSIGNED, IN_PROGRESS}
        => agents[tasks[t].assigned_agent].current_task = t

\* C26: a task that at the entry of an assign phase is pending, has every
\* prerequisite completed, shares no file with an in_progress task, while
\* some agent is idle, is assigned at the exit of that phase.
ReadyAtEntry(t) ==
    /\ tasks[t].status = PENDING
    /\ \A d \in Deps(t) : d \in TaskIds /\ tasks[d].status = COMPLETED
    /\ \A o \in TaskIds \ {t} :
          tasks[o].status = IN_PROGRESS => Files(o) \cap Files(t) = {}
    /\ \E a \in AgentIds : agents[a].status = "idle"
C26_ReadyTaskAssignedInSamePhase ==
    [][pc = "assign" =>
          \A t \in TaskIds : ReadyAtEntry(t) => tasks'[t].status = ASSIGNED]_vars

\* a task whose prerequisite completed in the round before has been assigned
C26_Witness ==
    /\ pc = "launch"
    /\ \E t \in TaskIds :
          /\ tasks[t].status = ASSIGNED /\ Deps(t) # {}
          /\ \A d \in Deps(t) : d \in TaskIds /\ tasks[d].status = COMPLETED

\* C27: no step changes a task's id, description, component, files,
\* dependencies, parallel_safe or estimated_effort, nor the set of tasks or
\* the set of agents.
C27_OnlyStatusFieldsChange ==
    [][/\ DOMAIN tasks' = DOMAIN tasks
       /\ DOMAIN agents' = DOMAIN agents
       /\ \A t \in TaskIds :
             /\ tasks'[t].id = tasks[t].id
             /\ tasks'[t].description = tasks[t].description
             /\ tasks'[t].component = tasks[t].component
             /\ tasks'[t].files = tasks[t].files
             /\ tasks'[t].dependencies = tasks[t].dependencies
             /\ tasks'[t].parallel_safe = tasks[t].parallel_safe
             /\ tasks'[t].estimated_effort = tasks[t].estimated_effort]_vars

\* a task with files is completed, with its output location set
C27_Witness ==
    \E t \in TaskIds :
        /\ tasks[t].status = COMPLETED /\ tasks[t].output_path # None
        /\ tasks[t].files # <<>> /\ pc = "done"

\* C30: the worker and the merge step are each called at most once per task.
C30_AtMostOneExecutionPerTask ==
    \A t \in TaskIds : workerCalls[t] <= 1 /\ mergeCalls[t] <= 1

\* later rounds have begun after one task failed and another was cancelled,
\* each with one worker call
C30_Witness ==
    /\ pc = "launch"
    /\ \E t, u \in TaskIds :
          /\ tasks[t].status = FAILED /\ workerCalls[t] = 1
          /\ tasks[u].status = IN_PROGRESS /\ workerCalls[u] = 1
          /\ \A a \in AgentIds : agents[a].current_task # u

\* C28: every task that is in_progress eventually is completed or failed.
C28_InProgressEventuallySettles ==
    \A t \in 1..ScenarioTasks :
        (tasks[t].status = IN_PROGRESS) ~> (tasks[t].status \in {COMPLETED, FAILED})

\* C29: when every worker call succeeds, orchestrate eventually returns with
\* every task completed.
C29_AllSuccessTerminates ==
    <>(pc = "done" /\ \A t \in TaskIds : tasks[t].status = COMPLETED)
====
